---- MODULE Spec2Model ----
(***************************************************************************)
(* A model of the sitemap crawler of src/main.py: the coordinator          *)
(* (CrawlingManager), its pool of worker threads (Crawler) sharing the     *)
(* crawl queue, the crawled set and the sitemap, and the serialization of  *)
(* the sitemap (Sitemap.create_sitemap).                                   *)
(*                                                                         *)
(* Strings are sequences of tokens.  A token is one character, except that *)
(* a scheme prefix ("https://", "mailto:") and a host name ("site",        *)
(* "other") are each one token: the code never looks inside them.          *)
(*                                                                         *)
(* Time is not modelled: a fetch may last longer than the 5 seconds of the  *)
(* queue's get, so a worker at _get_url may time out whenever the queue is *)
(* empty.  Each access to the queue, the crawled set and the sitemap is    *)
(* one step (they are atomic under the interpreter lock); the statements   *)
(* between two accesses belong to the step of the access that follows.     *)
(***************************************************************************)
EXTENDS Integers, Sequences, FiniteSets, TLC

\* ------------------------------------------------------------------ bounds

\* number of worker threads (num_workers, 30 by default in the code)
NumWorkers == 2

\* Sitemap._MAX_URL_PER_FILE, scaled down from 50000 so that a crawl of a
\* handful of pages crosses it
MAX_URL_PER_FILE == 2

Workers == 1..NumWorkers

None == <<"None">>

\* ------------------------------------------------------- string operations

\* F at the value of x.  TLC evaluates an operator's argument anew at each
\* use of the parameter; F's parameter is bound to the value instead
Let(x, F(_)) == CHOOSE r \in {F(v) : v \in {x}} : TRUE

\* s[from..] (python s[from:], 1-based here)
Drop(s, n) == SubSeq(s, n + 1, Len(s))

Take(s, n) == SubSeq(s, 1, n)

\* s.startswith(p)
StartsWith(s, p) == Len(p) <= Len(s) /\ SubSeq(s, 1, Len(p)) = p

\* s.endswith(p)
EndsWith(s, p) == Len(p) <= Len(s) /\ SubSeq(s, Len(s) - Len(p) + 1, Len(s)) = p

\* p in s, for strings
Contains(s, p) == \E i \in 1..(Len(s) - Len(p) + 1) : SubSeq(s, i, i + Len(p) - 1) = p

\* s.index(c), 1-based; 0 when c is not in s
IndexOf(s, c) ==
    IF \E i \in 1..Len(s) : s[i] = c
    THEN CHOOSE i \in 1..Len(s) : s[i] = c /\ \A j \in 1..(i - 1) : s[j] # c
    ELSE 0

RECURSIVE Flatten(_)
\* ''.join(parts)
Flatten(parts) == IF parts = <<>> THEN <<>> ELSE Head(parts) \o Flatten(Tail(parts))

RECURSIVE Split(_, _)
\* s.split(c): the list of the pieces of s between the occurrences of c
Split(s, c) ==
    Let(IndexOf(s, c), LAMBDA i :
        IF i = 0 THEN <<s>>
        ELSE <<Take(s, i - 1)>> \o Let(Drop(s, i), LAMBDA rest : Split(rest, c)))

RECURSIVE Join(_, _)
\* c.join(parts)
Join(parts, c) ==
    IF parts = <<>> THEN <<>>
    ELSE IF Len(parts) = 1 THEN parts[1]
    ELSE parts[1] \o <<c>> \o Join(Tail(parts), c)

\* ------------------------------------------------------------ urllib.parse

Schemes == {"http://", "https://"}

\* the path, query and fragment of what follows the scheme and the netloc
SplitRest(scheme, netloc, noFrag, fragment) ==
    Let(IndexOf(noFrag, "?"), LAMBDA q :
        [scheme   |-> scheme,
         netloc   |-> netloc,
         path     |-> IF q = 0 THEN noFrag ELSE Take(noFrag, q - 1),
         query    |-> IF q = 0 THEN <<>> ELSE Drop(noFrag, q),
         fragment |-> fragment])

SplitFragment(scheme, netloc, rest) ==
    Let(IndexOf(rest, "#"), LAMBDA h :
        IF h = 0
        THEN SplitRest(scheme, netloc, rest, <<>>)
        ELSE SplitRest(scheme, netloc, Take(rest, h - 1), Drop(rest, h)))

\* urlsplit(s): scheme, netloc, path, query and fragment of s
urlsplit(s) ==
    IF Len(s) >= 1 /\ s[1] \in Schemes
    THEN IF Len(s) >= 2 /\ s[2] \notin {"/", "?", "#"}
         THEN SplitFragment(s[1], s[2], Drop(s, 2))
         ELSE SplitFragment(s[1], "", Drop(s, 1))
    ELSE IF Len(s) >= 1 /\ s[1] \in {"mailto:", "tel:", "javascript:"}
    THEN IF Len(s) >= 3 /\ s[2] = "/" /\ s[3] = "/"
         THEN \* any scheme may be followed by "//" and a netloc
              IF Len(s) >= 4 /\ s[4] \notin {"/", "?", "#"}
              THEN SplitFragment(s[1], s[4], Drop(s, 4))
              ELSE SplitFragment(s[1], "", Drop(s, 3))
         ELSE SplitFragment(s[1], "", Drop(s, 1))
    ELSE SplitFragment("", "", s)

\* urlsplit and urlparse raise ValueError ("Invalid IPv6 URL") for a netloc
\* with a "[" and no "]"; the token "[x" is such a netloc
BadNetlocs == {"[x"}

ParseRaises(s) == Len(s) >= 2 /\ s[1] \in Schemes /\ s[2] \in BadNetlocs

\* urlunsplit(parts): a path after a netloc gets its leading "/"
urlunsplit(p) ==
    (IF p.scheme = "" THEN <<>> ELSE <<p.scheme>>)
    \o (IF p.netloc = "" THEN <<>>
        ELSE IF p.scheme \in Schemes THEN <<p.netloc>>
        ELSE <<"/", "/", p.netloc>>)
    \o (IF p.netloc # "" /\ p.path # <<>> /\ Head(p.path) # "/" THEN <<"/">> ELSE <<>>)
    \o p.path
    \o (IF p.query = <<>> THEN <<>> ELSE <<"?">> \o p.query)
    \o (IF p.fragment = <<>> THEN <<>> ELSE <<"#">> \o p.fragment)

\* the characters quote() leaves alone are letters, digits, "_.-~" and "/";
\* of the model's alphabet these are percent-encoded
QuoteTable == [c \in {" ", "&", "%", "<", ">"} |->
                 CASE c = " " -> <<"%", "2", "0">>
                   [] c = "&" -> <<"%", "2", "6">>
                   [] c = "%" -> <<"%", "2", "5">>
                   [] c = "<" -> <<"%", "3", "C">>
                   [] c = ">" -> <<"%", "3", "E">>]

RECURSIVE quote(_)
quote(s) ==
    IF s = <<>> THEN <<>>
    ELSE (IF Head(s) \in DOMAIN QuoteTable THEN QuoteTable[Head(s)] ELSE <<Head(s)>>)
         \o quote(Tail(s))

RECURSIVE RemoveDots(_, _)
\* the segment loop of urljoin: ".." pops (nothing when empty), "." is skipped
RemoveDots(segments, resolved) ==
    IF segments = <<>> THEN resolved
    ELSE Let(IF Head(segments) = <<".", ".">>
             THEN (IF resolved = <<>> THEN <<>> ELSE Take(resolved, Len(resolved) - 1))
             ELSE IF Head(segments) = <<".">> THEN resolved
             ELSE Append(resolved, Head(segments)),
             LAMBDA popped : RemoveDots(Tail(segments), popped))

\* segments[1:-1] = filter(None, segments[1:-1])
DropEmptyMiddle(all_segments) ==
    Let(all_segments, LAMBDA segments :
        IF Len(segments) <= 2 THEN segments
        ELSE <<segments[1]>>
             \o SelectSeq(SubSeq(segments, 2, Len(segments) - 1), LAMBDA x : x # <<>>)
             \o <<segments[Len(segments)]>>)

\* base_parts of urljoin: the segments of the base path without the last,
\* unless that is empty
BaseParts(bpath_parts) ==
    Let(bpath_parts, LAMBDA bparts :
        IF bparts[Len(bparts)] # <<>> THEN Take(bparts, Len(bparts) - 1) ELSE bparts)

\* the path urljoin resolves from the segments
ResolvedPath(segments) ==
    Let(RemoveDots(segments, <<>>), LAMBDA resolved_path :
        Join(IF segments[Len(segments)] \in {<<".">>, <<".", ".">>}
             THEN Append(resolved_path, <<>>)
             ELSE resolved_path,
             "/"))

OrRoot(path) == IF path = <<>> THEN <<"/">> ELSE path

\* urljoin of the split base b and the split url u
JoinSplit(base, url, b, u) ==
    IF url = <<>> THEN base
    ELSE IF u.scheme # "" /\ u.scheme # b.scheme THEN url
    ELSE IF u.netloc # "" THEN url
    ELSE IF u.path = <<>>
    THEN urlunsplit([scheme |-> b.scheme, netloc |-> b.netloc, path |-> b.path,
                     query |-> IF u.query = <<>> THEN b.query ELSE u.query,
                     fragment |-> u.fragment])
    ELSE Let(DropEmptyMiddle(IF Head(u.path) = "/" THEN Split(u.path, "/")
                             ELSE BaseParts(Split(b.path, "/")) \o Split(u.path, "/")),
             LAMBDA segments :
                 urlunsplit([scheme |-> b.scheme, netloc |-> b.netloc,
                             path |-> OrRoot(ResolvedPath(segments)),
                             query |-> u.query, fragment |-> u.fragment]))

\* urljoin(base, url)
urljoin(base, url) ==
    Let(urlsplit(base), LAMBDA b :
        Let(urlsplit(url), LAMBDA u : JoinSplit(base, url, b, u)))

\* --------------------------------------------------------- Crawler helpers

\* Crawler.invalid_formats
invalid_formats ==
    {<<".", "e", "p", "u", "b">>,
     <<".", "m", "o", "b", "i">>,
     <<".", "d", "o", "c", "x">>,
     <<".", "d", "o", "c">>,
     <<".", "o", "p", "f">>,
     <<".", "7", "z">>,
     <<".", "i", "b", "o", "o", "k", "s">>,
     <<".", "c", "b", "r">>,
     <<".", "a", "v", "i">>,
     <<".", "m", "k", "v">>,
     <<".", "m", "p", "4">>,
     <<".", "j", "p", "g">>,
     <<".", "j", "p", "e", "g">>,
     <<".", "p", "n", "g">>,
     <<".", "g", "i", "f">>,
     <<".", "p", "d", "f">>,
     <<".", "i", "s", "o">>,
     <<".", "r", "a", "r">>,
     <<".", "t", "a", "r">>,
     <<".", "t", "g", "z">>,
     <<".", "z", "i", "p">>,
     <<".", "d", "m", "g">>,
     <<".", "e", "x", "e">>}

\* Crawler._prepare_url
prepare_url(url_str) ==
    Let(urlsplit(url_str), LAMBDA url_split :
        urlunsplit([url_split EXCEPT !.path = quote(url_split.path)]))

\* "%a, %d %b %Y %H:%M:%S %Z" dates are the tokens of HttpDates; any other
\* header value, and the None of a missing header, make strptime raise
HttpDates == {"Mon01", "Tue02"}

Raised == <<"raised">>

\* Crawler._get_date_from_response: the parsed date, or Raised
get_date_from_response(headers) ==
    LET date == IF "last-modified" \in DOMAIN headers THEN headers["last-modified"]
                ELSE IF "date" \in DOMAIN headers THEN headers["date"]
                ELSE "None"
    IN IF date \in HttpDates THEN <<date>> ELSE Raised

\* datetime.now()
Now == <<"now">>

RECURSIVE ResolveSegments(_, _)
\* the loop of _resolve_url_path over the segments (each kept with its "/")
ResolveSegments(segments, resolved) ==
    IF segments = <<>> THEN resolved
    ELSE Let(IF Head(segments) \in {<<".", ".", "/">>, <<".", ".">>}
             THEN (IF Len(resolved) > 1 THEN Take(resolved, Len(resolved) - 1) ELSE resolved)
             ELSE IF Head(segments) \notin {<<".", "/">>, <<".">>}
             THEN Append(resolved, Head(segments))
             ELSE resolved,
             LAMBDA popped : ResolveSegments(Tail(segments), popped))

\* Crawler._resolve_url_path
resolve_url_path(path) ==
    Let(Split(path, "/"), LAMBDA parts :
        Let([i \in 1..Len(parts) |->
                IF i < Len(parts) THEN Append(parts[i], "/") ELSE parts[i]],
            LAMBDA segments : Flatten(ResolveSegments(segments, <<>>))))

\* mutant of clean_link: the resolved path is returned on its own
clean_link_PathOnly(link) == resolve_url_path(urlsplit(link).path)

\* Crawler._clean_link
clean_link(link) ==
    Let(urlsplit(link), LAMBDA parts :
        urlunsplit([parts EXCEPT !.path = resolve_url_path(parts.path)]))

RECURSIVE Replace(_, _, _)
\* s.replace(c, r) for a one-character c
Replace(s, c, r) ==
    IF s = <<>> THEN <<>>
    ELSE (IF Head(s) = c THEN r ELSE <<Head(s)>>) \o Replace(Tail(s), c, r)

\* mutant of convert_html_special_chars: "&" is replaced last
convert_html_special_chars_AmpLast(link) ==
    Let(Replace(link, "\"", <<"&", "q", "u", "o", "t", ";">>), LAMBDA quot :
        Let(Replace(quot, "<", <<"&", "l", "t", ";">>), LAMBDA lt :
            Let(Replace(lt, ">", <<"&", "g", "t", ";">>), LAMBDA gt :
                Replace(gt, "&", <<"&", "a", "m", "p", ";">>))))

\* Crawler._convert_html_special_chars
convert_html_special_chars(link) ==
    Let(Replace(link, "&", <<"&", "a", "m", "p", ";">>), LAMBDA amp :
        Let(Replace(amp, "\"", <<"&", "q", "u", "o", "t", ";">>), LAMBDA quot :
            Let(Replace(quot, "<", <<"&", "l", "t", ";">>), LAMBDA lt :
                Replace(lt, ">", <<"&", "g", "t", ";">>))))

\* mutant of can_fetch: the robots parser allows every link
can_fetch_AllowAll(robots_parser, link) == TRUE

\* Crawler._can_fetch: the robots parser is an external library; its rules
\* are the path prefixes the site's robots.txt disallows
can_fetch(robots_parser, link) ==
    \E path \in {urlsplit(link).path} :
        \A prefix \in robots_parser.disallow : ~StartsWith(path, prefix)

\* mutant of exclude_url: no link is excluded
exclude_url_KeepAll(excluded, link) == TRUE

\* Crawler._exclude_url: FALSE when the link holds an excluded substring
exclude_url(excluded, link) == \A ex \in excluded : ~Contains(link, ex)

\* ------------------------------------------------------------ the web sites

\* 'https://site/', and 'https://site' + path
Base == <<"https://", "site", "/">>

OnSite(path) == <<"https://", "site">> \o path

BothDates == [h \in {"last-modified", "date"} |->
                 IF h = "last-modified" THEN "Mon01" ELSE "Tue02"]

DateOnly == [h \in {"date"} |-> "Tue02"]

NoDates == [h \in {} |-> "None"]

BadLastModified == [h \in {"last-modified", "date"} |->
                       IF h = "last-modified" THEN "yesterday" ELSE "Tue02"]

\* what urlopen(request) gives: the final url (geturl), the headers, whether
\* read() succeeds, and the hrefs link_regex finds in the body
Page(url, headers, hrefs) ==
    [url |-> url, headers |-> headers, readable |-> TRUE, hrefs |-> hrefs]

Unreadable(url) == [url |-> url, headers |-> BothDates, readable |-> FALSE, hrefs |-> <<>>]

Site(excluded, disallow, web) ==
    [base_url |-> Base, excluded |-> excluded, disallow |-> disallow, web |-> web]

\* two pages link to the same page
RaceSite ==
    Site({}, {},
         (Base :> Page(Base, BothDates, << <<"/", "a">>, <<"/", "b">> >>))
      @@ (OnSite(<<"/", "a">>) :> Page(OnSite(<<"/", "a">>), BothDates, << <<"/", "b">> >>))
      @@ (OnSite(<<"/", "b">>) :> Page(OnSite(<<"/", "b">>), BothDates, <<>>)))

\* /r redirects to /b, which is linked too
RedirectSite ==
    Site({}, {},
         (Base :> Page(Base, BothDates, << <<"/", "r">>, <<"/", "b">> >>))
      @@ (OnSite(<<"/", "r">>) :> Page(OnSite(<<"/", "b">>), BothDates, <<>>))
      @@ (OnSite(<<"/", "b">>) :> Page(OnSite(<<"/", "b">>), BothDates, <<>>)))

\* /x cannot be opened, /e cannot be read, /f.pdf has an invalid format
ErrorSite ==
    Site({}, {},
         (Base :> Page(Base, BothDates,
                       << <<"/", "x">>, <<"/", "f", ".", "p", "d", "f">>, <<"/", "e">> >>))
      @@ (OnSite(<<"/", "e">>) :> Unreadable(OnSite(<<"/", "e">>))))

\* /d has a Date header only, /n no date header, /m a Last-Modified header
\* that is no HTTP date
DateSite ==
    Site({}, {},
         (Base :> Page(Base, BothDates, << <<"/", "d">>, <<"/", "n">>, <<"/", "m">> >>))
      @@ (OnSite(<<"/", "d">>) :> Page(OnSite(<<"/", "d">>), DateOnly, <<>>))
      @@ (OnSite(<<"/", "n">>) :> Page(OnSite(<<"/", "n">>), NoDates, <<>>))
      @@ (OnSite(<<"/", "m">>) :> Page(OnSite(<<"/", "m">>), BadLastModified, <<>>)))

\* links of every form: another host, mailto, disallowed by robots.txt,
\* excluded, fragment only, relative, with an anchor
FilterSite ==
    Site({<<"z", "x">>}, {<<"/", "p">>},
         (Base :> Page(Base, BothDates,
                       << <<"https://", "other", "/", "x">>,
                          <<"mailto:", "m">>,
                          <<"/", "p", "/", "a">>,
                          <<"/", "z", "x">>,
                          <<"#", "t">>,
                          <<"c", "/", ".", ".", "/", "b">>,
                          <<"/", "a", "&", "?", "u", "&", "v", "#", "t">> >>))
      @@ (OnSite(<<"/", "b">>) :> Page(OnSite(<<"/", "b">>), DateOnly, <<>>))
      @@ (OnSite(<<"/", "a", "%", "2", "6", "?", "u", "&", "v">>) :>
              Page(OnSite(<<"/", "a", "%", "2", "6", "?", "u", "&", "v">>), BothDates,
                   << <<"/", "b">> >>)))

\* every page ends with a link that urlparse cannot parse
BrokenLinkSite ==
    Site({}, {},
         (Base :> Page(Base, BothDates,
                       << <<"/", "a">>, <<"/", "b">>, <<"http://", "[x", "/">> >>))
      @@ (OnSite(<<"/", "a">>) :> Page(OnSite(<<"/", "a">>), BothDates,
                                       << <<"http://", "[x", "/">> >>))
      @@ (OnSite(<<"/", "b">>) :> Page(OnSite(<<"/", "b">>), BothDates,
                                       << <<"http://", "[x", "/">> >>)))

\* links with "." and ".." segments: "/"-rooted, absolute, relative
DotSite ==
    Site({}, {},
         (Base :> Page(Base, BothDates,
                       << <<"/", "a", "/", ".", ".", "/", "b">>,
                          <<"https://", "site", "/", "c", "/", ".", "/", "d", "#", "f">>,
                          <<"e", "/", ".", ".", "/", "g", "#", "h">> >>)))

\* /r redirects to /b, which nothing else links to but /b itself
StaleSite ==
    Site({}, {},
         (Base :> Page(Base, BothDates, << <<"/", "r">> >>))
      @@ (OnSite(<<"/", "r">>) :> Page(OnSite(<<"/", "b">>), BothDates, << <<"/", "b">> >>))
      @@ (OnSite(<<"/", "b">>) :> Page(OnSite(<<"/", "b">>), BothDates, << <<"/", "b">> >>)))

\* mailto and tel links, two of them with "//" and the host of the site
SchemeSite ==
    Site({}, {},
         (Base :> Page(Base, BothDates,
                       << <<"tel:", "5">>,
                          <<"mailto:", "/", "/", "site", "/", "x">>,
                          <<"tel:", "/", "/", "other", "/", "5">>,
                          <<"/", "a">> >>))
      @@ (OnSite(<<"/", "a">>) :> Page(OnSite(<<"/", "a">>), BothDates, <<>>)))

\* the start url is a page below the root, and the pages link back to it
SeedSite ==
    [base_url |-> OnSite(<<"/", "s">>), excluded |-> {}, disallow |-> {},
     web |-> (OnSite(<<"/", "s">>) :>
                 Page(OnSite(<<"/", "s">>), BothDates,
                      << <<"/", "a">>, <<"/", "s">>, <<"/", "s", "#", "x">> >>))
          @@ (OnSite(<<"/", "a">>) :>
                 Page(OnSite(<<"/", "a">>), BothDates, << <<"/", "s">>, <<"s">> >>))]

Sites == {RaceSite, RedirectSite, ErrorSite, DateSite, FilterSite, BrokenLinkSite,
          DotSite, StaleSite, SchemeSite, SeedSite}

\* ------------------------------------------------------------------- state

VARIABLES
    site,           \* the web site crawled and the manager's arguments
    crawl_queue,    \* CrawlingManager._crawling_queue
    crawled,        \* CrawlingManager._crawled_urls
    urls,           \* Sitemap._urls
    mpc,            \* where CrawlingManager.run is
    files,          \* the files create_sitemap has written
    pc,             \* where each worker's Crawler.run is
    robots_parser,  \* Crawler.robots_parser of each worker
    current_url,    \* current_url_str of each worker
    response_url,   \* response_url_string of each worker
    links,          \* the links of the page each worker has still to look at
    link_str,       \* link_str of each worker
    enqueued        \* history: how many times each url was put into the queue

vars == <<site, crawl_queue, crawled, urls, mpc, files, pc, robots_parser,
          current_url, response_url, links, link_str, enqueued>>

shared == <<crawl_queue, crawled, urls, enqueued>>

\* the number of puts of url in the history, and the history after one more
Count(url) == IF url \in DOMAIN enqueued THEN enqueued[url] ELSE 0

Counted(url) ==
    [u \in DOMAIN enqueued \cup {url} |-> IF u = url THEN Count(u) + 1 ELSE enqueued[u]]

\* CrawlingManager.__init__
Init ==
    /\ site \in Sites
    /\ crawl_queue = <<site.base_url>>
    /\ crawled = {}
    /\ urls = <<>>
    /\ mpc = "spawn"
    /\ files = <<>>
    /\ pc = [w \in Workers |-> "new"]
    /\ robots_parser = [w \in Workers |-> [loaded |-> FALSE, disallow |-> {}]]
    /\ current_url = [w \in Workers |-> None]
    /\ response_url = [w \in Workers |-> None]
    /\ links = [w \in Workers |-> <<>>]
    /\ link_str = [w \in Workers |-> None]
    /\ enqueued = [u \in {site.base_url} |-> 1]

\* ----------------------------------------------------- Sitemap (lines 14-77)

\* a dict of Sitemap._urls never equals a str
DictEqualsStr(entry, str) == FALSE

\* link_str in self.sitemap.url
InSitemapUrl(link) == \E i \in 1..Len(urls) : DictEqualsStr(urls[i], link)

\* Sitemap.add_url
add_url(url, date) == Append(urls, [loc |-> url, lastmod |-> date])

Min(a, b) == IF a < b THEN a ELSE b

\* self._urls[i * MAX : (i + 1) * MAX], for the i of range(files_num)
Slice(all, i) ==
    SubSeq(all, i * MAX_URL_PER_FILE + 1, Min((i + 1) * MAX_URL_PER_FILE, Len(all)))

\* f'sitemap{i + 1}.xml'
PartName(i) == <<"sitemap", ToString(i + 1), ".xml">>

\* Sitemap._create_sitemap_file: the <url> elements written, in order
create_sitemap_file(entries) == [root |-> "urlset", items |-> entries]

\* Sitemap._create_index_sitemap_file: the <sitemap> elements written
create_index_sitemap_file(sitemap_file_names) ==
    [root |-> "sitemapindex", items |-> sitemap_file_names]

\* mutant of FilesNum: the remainder is forgotten
FilesNum_Floor(n) == n \div MAX_URL_PER_FILE

\* len(self._urls) // MAX, plus one when there is a remainder
FilesNum(n) ==
    IF n % MAX_URL_PER_FILE # 0 THEN n \div MAX_URL_PER_FILE + 1 ELSE n \div MAX_URL_PER_FILE

\* Sitemap.create_sitemap: the files written, by name
create_sitemap(all) ==
    LET multi_file == Len(all) > MAX_URL_PER_FILE
        files_num  == FilesNum(Len(all))
        sitemap_files == [i \in 1..files_num |-> PartName(i - 1)]
    IN IF multi_file
       THEN [name \in {sitemap_files[i] : i \in 1..files_num} \cup {<<"sitemap_index", ".xml">>} |->
                IF name = <<"sitemap_index", ".xml">>
                THEN create_index_sitemap_file(sitemap_files)
                ELSE create_sitemap_file(
                         Slice(all, (CHOOSE i \in 1..files_num : sitemap_files[i] = name) - 1))]
       ELSE [name \in {<<"sitemap", ".xml">>} |-> create_sitemap_file(all)]

\* ------------------------------------------- CrawlingManager.run (318-338)

\* for i in range(num_workers): crawler.start()
Start(w) ==
    /\ mpc = "spawn"
    /\ pc[w] = "new"
    /\ \A v \in Workers : v < w => pc[v] # "new"
    /\ pc' = [pc EXCEPT ![w] = "robots"]
    /\ mpc' = IF w = NumWorkers THEN "poll" ELSE "spawn"
    /\ UNCHANGED <<site, shared, files, robots_parser, current_url, response_url,
                   links, link_str>>

\* threading.active_count() == 1 ends the polling loop
PollExit ==
    /\ mpc = "poll"
    /\ \A w \in Workers : pc[w] \in {"stopped", "dead"}
    /\ mpc' = "serialize"
    /\ UNCHANGED <<site, shared, files, pc, robots_parser, current_url, response_url,
                   links, link_str>>

\* self._sitemap.create_sitemap()
CreateSitemap ==
    /\ mpc = "serialize"
    /\ files' = create_sitemap(urls)
    /\ mpc' = "done"
    /\ UNCHANGED <<site, shared, pc, robots_parser, current_url, response_url,
                   links, link_str>>

\* --------------------------------------------------- Crawler.run (186-290)

\* the next statement of a worker that has finished with a link: the next
\* link of the for loop, or (after task_done, which nothing waits for) back
\* to the top of the while loop
AfterLink(rest) == IF rest = <<>> THEN "get" ELSE "links"

locals == <<robots_parser, current_url, response_url, links, link_str>>

\* mutant of Continue: break instead of continue
Break(w) ==
    /\ pc' = [pc EXCEPT ![w] = "stopped"]
    /\ current_url' = [current_url EXCEPT ![w] = None]
    /\ response_url' = [response_url EXCEPT ![w] = None]
    /\ links' = [links EXCEPT ![w] = <<>>]
    /\ link_str' = [link_str EXCEPT ![w] = None]
    /\ UNCHANGED robots_parser

\* a worker goes back to the top of the while loop
Continue(w) ==
    /\ pc' = [pc EXCEPT ![w] = "get"]
    /\ current_url' = [current_url EXCEPT ![w] = None]
    /\ response_url' = [response_url EXCEPT ![w] = None]
    /\ links' = [links EXCEPT ![w] = <<>>]
    /\ link_str' = [link_str EXCEPT ![w] = None]
    /\ UNCHANGED robots_parser

\* an exception that nothing catches ends the thread of the worker
Die(w) ==
    /\ pc' = [pc EXCEPT ![w] = "dead"]
    /\ current_url' = [current_url EXCEPT ![w] = None]
    /\ response_url' = [response_url EXCEPT ![w] = None]
    /\ links' = [links EXCEPT ![w] = <<>>]
    /\ link_str' = [link_str EXCEPT ![w] = None]
    /\ UNCHANGED robots_parser

\* self._check_robots()
CheckRobots(w) ==
    /\ pc[w] = "robots"
    /\ robots_parser' = [robots_parser EXCEPT
                            ![w] = [loaded |-> TRUE, disallow |-> site.disallow]]
    /\ pc' = [pc EXCEPT ![w] = "get"]
    /\ UNCHANGED <<site, shared, mpc, files, current_url, response_url, links, link_str>>

\* _get_url returns a url of the queue; an empty one ends the loop
GetUrl(w) ==
    /\ pc[w] = "get"
    /\ crawl_queue # <<>>
    /\ crawl_queue' = Tail(crawl_queue)
    /\ current_url' = [current_url EXCEPT ![w] = Head(crawl_queue)]
    /\ pc' = [pc EXCEPT ![w] = IF Head(crawl_queue) = <<>> THEN "stopped" ELSE "crawled"]
    /\ UNCHANGED <<site, crawled, urls, enqueued, mpc, files, robots_parser,
                   response_url, links, link_str>>

\* mutant of GetTimeout: the get blocks without a timeout
GetTimeout_Blocks(w) ==
    /\ FALSE
    /\ UNCHANGED vars

\* _get_url finds the queue empty for its 5 seconds: the loop ends
GetTimeout(w) ==
    /\ pc[w] = "get"
    /\ crawl_queue = <<>>
    /\ pc' = [pc EXCEPT ![w] = "stopped"]
    /\ UNCHANGED <<site, shared, mpc, files, locals>>

\* mutant of AddCrawled: the url is not added to the crawled set
AddCrawled_Forgets(w) ==
    /\ pc[w] = "crawled"
    /\ pc' = [pc EXCEPT ![w] = "fetch"]
    /\ UNCHANGED <<site, shared, mpc, files, locals>>

\* self.crawled.add(current_url_str)
AddCrawled(w) ==
    /\ pc[w] = "crawled"
    /\ crawled' = crawled \cup {current_url[w]}
    /\ pc' = [pc EXCEPT ![w] = "fetch"]
    /\ UNCHANGED <<site, crawl_queue, urls, enqueued, mpc, files, locals>>

\* mutant of Fetch: a url that cannot be opened is recorded like a skipped one
Fetch_RecordsFailure(w) ==
    \E current_url_str \in {prepare_url(current_url[w])} :
       /\ pc[w] = "fetch"
       /\ IF \/ \E path \in {urlsplit(current_url_str).path} :
                   \E ext \in invalid_formats : EndsWith(path, ext)
             \/ current_url_str \notin DOMAIN site.web
          THEN /\ urls' = add_url(convert_html_special_chars(current_url_str), Now)
               /\ Continue(w)
          ELSE /\ urls' = urls
               /\ current_url' = [current_url EXCEPT ![w] = current_url_str]
               /\ pc' = [pc EXCEPT ![w] = "response"]
               /\ UNCHANGED <<robots_parser, response_url, links, link_str>>
       /\ UNCHANGED <<site, crawl_queue, crawled, enqueued, mpc, files>>

\* mutant of Fetch: every url is opened, whatever its format
Fetch_NoSkip(w) ==
    \E current_url_str \in {prepare_url(current_url[w])} :
       /\ pc[w] = "fetch"
       /\ IF current_url_str \notin DOMAIN site.web
          THEN /\ urls' = urls
               /\ Continue(w)
          ELSE /\ urls' = urls
               /\ current_url' = [current_url EXCEPT ![w] = current_url_str]
               /\ pc' = [pc EXCEPT ![w] = "response"]
               /\ UNCHANGED <<robots_parser, response_url, links, link_str>>
       /\ UNCHANGED <<site, crawl_queue, crawled, enqueued, mpc, files>>

\* lines 200-215, and 232-241 for a url of an invalid format: the url is
\* quoted, then opened unless its path ends in an invalid format
Fetch(w) ==
    \E current_url_str \in {prepare_url(current_url[w])} :
       /\ pc[w] = "fetch"
       /\ IF \E path \in {urlsplit(current_url_str).path} :
                \E ext \in invalid_formats : EndsWith(path, ext)
          THEN \* response is None: recorded with the current time, no links
               /\ urls' = add_url(convert_html_special_chars(current_url_str), Now)
               /\ Continue(w)
          ELSE IF current_url_str \notin DOMAIN site.web
          THEN \* urlopen raises
               /\ urls' = urls
               /\ Continue(w)
          ELSE /\ urls' = urls
               /\ current_url' = [current_url EXCEPT ![w] = current_url_str]
               /\ pc' = [pc EXCEPT ![w] = "response"]
               /\ UNCHANGED <<robots_parser, response_url, links, link_str>>
       /\ UNCHANGED <<site, crawl_queue, crawled, enqueued, mpc, files>>

\* lines 217-245: the response is read and dated, the page is added to the
\* sitemap under the url of the response, and its links are found
HandleResponse(w) ==
    /\ pc[w] = "response"
    /\ \E response \in {site.web[current_url[w]]} :
       \E date \in {get_date_from_response(response.headers)} :
          IF ~response.readable \/ date = Raised
          THEN \* response.read() or _get_date_from_response raises
               /\ urls' = urls
               /\ Continue(w)
          ELSE /\ urls' = add_url(convert_html_special_chars(response.url), date)
               /\ IF response.hrefs = <<>>
                  THEN Continue(w)
                  ELSE /\ pc' = [pc EXCEPT ![w] = "links"]
                       /\ response_url' = [response_url EXCEPT ![w] = response.url]
                       /\ links' = [links EXCEPT ![w] = response.hrefs]
                       /\ UNCHANGED <<robots_parser, current_url, link_str>>
    /\ UNCHANGED <<site, crawl_queue, crawled, enqueued, mpc, files>>

HttpPrefixes == {<<"h", "t", "t", "p">>, <<"http://">>, <<"https://">>}

\* line 259-260: the anchor part is removed
StripAnchor(link) ==
    IF link # None /\ IndexOf(link, "#") # 0
    THEN Take(link, IndexOf(link, "#") - 1)
    ELSE link

\* the scheme and the host of the response, and the link after them
FromOrigin(response_url_obj, tail) ==
    <<response_url_obj.scheme, response_url_obj.netloc>> \o tail

\* lines 249-260: the link made absolute and its anchor removed; None for
\* the link the loop skips at line 256
NormalizeLink(link, response_url_string) ==
    Let(urlsplit(response_url_string), LAMBDA response_url_obj :
        Let(IF StartsWith(link, <<"/">>) THEN FromOrigin(response_url_obj, link)
            ELSE IF StartsWith(link, <<"#">>)
            THEN FromOrigin(response_url_obj, response_url_obj.path \o link)
            ELSE IF \A p \in HttpPrefixes : ~StartsWith(link, p)
            THEN clean_link(urljoin(response_url_string, link))
            ELSE IF StartsWith(link, <<"mailto:">>) \/ StartsWith(link, <<"tel:">>)
            THEN None
            ELSE link,
            StripAnchor))

\* the worker goes on to the next link of the page, if any
NextLink(w) ==
    /\ pc' = [pc EXCEPT ![w] = AfterLink(Tail(links[w]))]
    /\ links' = [links EXCEPT ![w] = Tail(links[w])]
    /\ link_str' = [link_str EXCEPT ![w] = None]
    /\ current_url' = [current_url EXCEPT ![w] = IF Tail(links[w]) = <<>> THEN None ELSE @]
    /\ response_url' = [response_url EXCEPT ![w] = IF Tail(links[w]) = <<>> THEN None ELSE @]
    /\ UNCHANGED robots_parser

\* lines 246-269: the next link is normalized, parsed (line 263, where
\* urlparse may raise) and looked up in the sitemap and in the queue
FindLink(w) ==
    /\ pc[w] = "links"
    /\ \E link \in {NormalizeLink(Head(links[w]), response_url[w])} :
          IF link # None /\ ParseRaises(link)
          THEN Die(w)
          ELSE IF \/ link = None
             \/ InSitemapUrl(link)
             \/ \E i \in 1..Len(crawl_queue) : crawl_queue[i] = link
          THEN NextLink(w)
          ELSE /\ pc' = [pc EXCEPT ![w] = "check"]
               /\ link_str' = [link_str EXCEPT ![w] = link]
               /\ UNCHANGED <<robots_parser, current_url, response_url, links>>
    /\ UNCHANGED <<site, shared, mpc, files>>

\* lines 270-280: the checks of the link that read no shared state
Rejected(w, link) ==
    \E link_obj \in {urlsplit(link)} :
       \/ link_obj.netloc # urlsplit(site.base_url).netloc
       \/ link_obj.path \in {<<>>, <<"/">>} /\ link_obj.query = <<>>
       \/ Contains(link, <<"j", "a", "v", "a", "s", "c", "r", "i", "p", "t">>)
       \/ Contains(link, <<"javascript:">>)
       \/ StartsWith(link_obj.path, <<"d", "a", "t", "a", ":">>)
       \/ ~can_fetch(robots_parser[w], link)

\* mutant of CheckLink: the crawled set is not looked at
CheckLink_IgnoresCrawled(w) ==
    /\ pc[w] = "check"
    /\ IF Rejected(w, link_str[w])
       THEN NextLink(w)
       ELSE /\ pc' = [pc EXCEPT ![w] = "put"]
            /\ UNCHANGED locals
    /\ UNCHANGED <<site, shared, mpc, files>>

\* lines 270-282: the remaining checks, the last one against the crawled set
CheckLink(w) ==
    /\ pc[w] = "check"
    /\ IF Rejected(w, link_str[w]) \/ link_str[w] \in crawled
       THEN NextLink(w)
       ELSE /\ pc' = [pc EXCEPT ![w] = "put"]
            /\ UNCHANGED locals
    /\ UNCHANGED <<site, shared, mpc, files>>

\* lines 283-286: the link is put into the queue unless it is excluded
PutLink(w) ==
    /\ pc[w] = "put"
    /\ IF exclude_url(site.excluded, link_str[w])
       THEN /\ crawl_queue' = Append(crawl_queue, link_str[w])
            /\ enqueued' = Counted(link_str[w])
       ELSE UNCHANGED <<crawl_queue, enqueued>>
    /\ NextLink(w)
    /\ UNCHANGED <<site, crawled, urls, mpc, files>>

Worker(w) ==
    \/ CheckRobots(w)
    \/ GetUrl(w)
    \/ GetTimeout(w)
    \/ AddCrawled(w)
    \/ Fetch(w)
    \/ HandleResponse(w)
    \/ FindLink(w)
    \/ CheckLink(w)
    \/ PutLink(w)

Next ==
    \/ \E w \in Workers : Start(w)
    \/ \E w \in Workers : Worker(w)
    \/ PollExit
    \/ CreateSitemap

Spec == Init /\ [][Next]_vars

\* ------------------------------------------------- a pool of one worker

\* CrawlingManager(base_url, num_workers=1) has started its one worker: the
\* other workers of the model are threads that never exist, which
\* active_count() does not count
InitSingle ==
    /\ site \in Sites
    /\ crawl_queue = <<site.base_url>>
    /\ crawled = {}
    /\ urls = <<>>
    /\ mpc = "poll"
    /\ files = <<>>
    /\ pc = [w \in Workers |-> IF w = 1 THEN "robots" ELSE "stopped"]
    /\ robots_parser = [w \in Workers |-> [loaded |-> FALSE, disallow |-> {}]]
    /\ current_url = [w \in Workers |-> None]
    /\ response_url = [w \in Workers |-> None]
    /\ links = [w \in Workers |-> <<>>]
    /\ link_str = [w \in Workers |-> None]
    /\ enqueued = [u \in {site.base_url} |-> 1]

NextSingle ==
    \/ Worker(1)
    \/ PollExit
    \/ CreateSitemap

SpecSingle == InitSingle /\ [][NextSingle]_vars

\* ------------------------------------------- create_sitemap on its own

\* the longest list of records create_sitemap is given
MaxRecords == 5

Records == {[loc |-> Base, lastmod |-> Now],
            [loc |-> OnSite(<<"/", "a">>), lastmod |-> <<"Mon01">>]}

\* the crawl is over with any list of records in the sitemap
InitSitemap ==
    /\ site = RaceSite
    /\ crawl_queue = <<>>
    /\ crawled = {}
    /\ urls \in UNION {[1..n -> Records] : n \in 0..MaxRecords}
    /\ mpc = "serialize"
    /\ files = <<>>
    /\ pc = [w \in Workers |-> "stopped"]
    /\ robots_parser = [w \in Workers |-> [loaded |-> TRUE, disallow |-> {}]]
    /\ current_url = [w \in Workers |-> None]
    /\ response_url = [w \in Workers |-> None]
    /\ links = [w \in Workers |-> <<>>]
    /\ link_str = [w \in Workers |-> None]
    /\ enqueued = [u \in {site.base_url} |-> 1]

SpecSitemap == InitSitemap /\ [][CreateSitemap]_vars

\* ------------------------------------- the normalization of a link on its own

\* the longest path a link is built from, in segments
MaxSegments == 3

\* a name, ".", ".." and the empty segment
Segments == {<<"a">>, <<".">>, <<".", ".">>, <<>>}

Paths == {Join(p, "/") : p \in UNION {[1..n -> Segments] : n \in 1..MaxSegments}}

\* relative, "/"-rooted and absolute links, "#"-only links, and each of them
\* with a fragment
LinkInputs ==
    LET plain == Paths \cup {<<"/">> \o p : p \in Paths} \cup {Base \o p : p \in Paths}
    IN plain \cup {l \o <<"#", "t">> : l \in plain} \cup {<<"#">>}

\* the urls of the pages the links are found on
PageInputs == {Base, OnSite(<<"/", "c", "/", "d">>), OnSite(<<"/", "c", "/", ".", ".", "/", "d">>)}

\* worker 1 has a page with one link before it
InitNormalize ==
    /\ site = RaceSite
    /\ crawl_queue = <<>>
    /\ crawled = {site.base_url}
    /\ urls = <<>>
    /\ mpc = "poll"
    /\ files = <<>>
    /\ pc = [w \in Workers |-> IF w = 1 THEN "links" ELSE "stopped"]
    /\ robots_parser = [w \in Workers |-> [loaded |-> TRUE, disallow |-> {}]]
    /\ \E page \in PageInputs :
          /\ current_url = [w \in Workers |-> IF w = 1 THEN page ELSE None]
          /\ response_url = [w \in Workers |-> IF w = 1 THEN page ELSE None]
    /\ \E link \in LinkInputs : links = [w \in Workers |-> IF w = 1 THEN <<link>> ELSE <<>>]
    /\ link_str = [w \in Workers |-> None]
    /\ enqueued = [u \in {site.base_url} |-> 1]

\* lines 249-260 on the link before worker w; the result is fed back as the
\* link to normalize next
Normalize(w) ==
    /\ pc[w] \in {"links", "check"}
    /\ \E link \in {NormalizeLink(Head(links[w]), response_url[w])} :
          /\ link_str' = [link_str EXCEPT ![w] = link]
          /\ links' = [links EXCEPT ![w] = <<link>>]
    /\ pc' = [pc EXCEPT ![w] = IF pc[w] = "links" THEN "check" ELSE "put"]
    /\ UNCHANGED <<site, shared, mpc, files, robots_parser, current_url, response_url>>

SpecNormalize == InitNormalize /\ [][\E w \in Workers : Normalize(w)]_vars

\* --------------------------------------- the escaping of a location on its own

\* the longest location, in pieces
MaxPieces == 3

\* the four special characters, a letter, and the entity texts after their "&"
Pieces == {<<"&">>, <<"\"">>, <<"<">>, <<">">>, <<"a">>,
           <<"a", "m", "p", ";">>, <<"q", "u", "o", "t", ";">>,
           <<"l", "t", ";">>, <<"g", "t", ";">>}

Locations == {Flatten(p) : p \in UNION {[1..n -> Pieces] : n \in 0..MaxPieces}}

\* worker 1 has the response of a page whose final url is any location
InitEscape ==
    /\ \E loc \in Locations :
          /\ site = [base_url |-> loc, excluded |-> {}, disallow |-> {},
                     web |-> (loc :> Page(loc, BothDates, <<>>))]
          /\ current_url = [w \in Workers |-> IF w = 1 THEN loc ELSE None]
    /\ crawl_queue = <<>>
    /\ crawled = {site.base_url}
    /\ urls = <<>>
    /\ mpc = "poll"
    /\ files = <<>>
    /\ pc = [w \in Workers |-> IF w = 1 THEN "response" ELSE "stopped"]
    /\ robots_parser = [w \in Workers |-> [loaded |-> TRUE, disallow |-> {}]]
    /\ response_url = [w \in Workers |-> None]
    /\ links = [w \in Workers |-> <<>>]
    /\ link_str = [w \in Workers |-> None]
    /\ enqueued = [u \in {site.base_url} |-> 1]

SpecEscape == InitEscape /\ [][\E w \in Workers : HandleResponse(w)]_vars

\* the threads are scheduled fairly, and every step of a worker ends: the
\* queue get and the network calls have timeouts
Fairness ==
    /\ \A w \in Workers : WF_vars(Start(w))
    /\ \A w \in Workers : WF_vars(Worker(w))
    /\ WF_vars(PollExit)
    /\ WF_vars(CreateSitemap)

FairSpec == Spec /\ Fairness

\* ------------------------------------------------------------------ claims

\* the statements of a worker between taking a url and being back at the
\* top of its loop
InFlight == {"crawled", "fetch", "response", "links", "check", "put"}

\* every worker thread has ended, by the break of its loop or by an exception
Stopped == \A w \in Workers : pc[w] \in {"stopped", "dead"}

\* C1: no url is ever put into the queue more than once during a crawl,
\* whatever the interleaving of the workers
C1_NoUrlEnqueuedTwice == \A u \in DOMAIN enqueued : enqueued[u] <= 1

\* C2: after a full crawl no two records of the sitemap have the same
\* location
C2_NoDuplicateRecords ==
    mpc = "done" =>
        \A i, j \in 1..Len(urls) : i # j => urls[i].loc # urls[j].loc

\* C3: a worker terminates only when the queue is empty and no other worker
\* has a fetch or a link-processing step in flight
C3_ExitOnlyWhenIdle ==
    [][\A w \in Workers :
          pc[w] # "stopped" /\ pc'[w] = "stopped" =>
              /\ crawl_queue = <<>>
              /\ \A v \in Workers \ {w} : pc[v] \notin InFlight]_vars

\* C4: serialization starts only after every worker has terminated, the
\* queue is then empty, and no record is appended once it has started
C4_SerializeAfterWorkers ==
    /\ [](mpc \in {"serialize", "done"} => Stopped /\ crawl_queue = <<>>)
    /\ [][(mpc \in {"serialize", "done"}) => urls' = urls]_vars

\* C5: under fair scheduling the crawl terminates: every worker exits its
\* loop and the coordinator serializes the sitemap
C5_Terminates == <>(Stopped /\ mpc = "done" /\ files # <<>>)

C5_Witness ==
    /\ Stopped
    /\ mpc = "done"
    /\ files # <<>>
    /\ Cardinality(crawled) >= 3

\* C6: every url of the queue is in the set used for dedup (the crawled
\* set), from the seeding of the start url onward
C6_PendingSubsetOfSeen ==
    \A i \in 1..Len(crawl_queue) : crawl_queue[i] \in crawled

\* worker w ends the fetch of its url in this step
FetchEnds(w) ==
    \/ pc[w] = "fetch" /\ pc'[w] \notin {"fetch", "response"}
    \/ pc[w] = "response" /\ pc'[w] # "response"

\* the url of worker w has an invalid format: it is not fetched
Skipped(w) ==
    /\ pc[w] = "fetch"
    /\ \E path \in {urlsplit(prepare_url(current_url[w])).path} :
          \E ext \in invalid_formats : EndsWith(path, ext)

\* the url of worker w cannot be opened
OpenFails(w) ==
    /\ pc[w] = "fetch"
    /\ ~Skipped(w)
    /\ prepare_url(current_url[w]) \notin DOMAIN site.web

\* the response of worker w cannot be read or dated
HandlingFails(w) ==
    /\ pc[w] = "response"
    /\ \/ ~site.web[current_url[w]].readable
       \/ get_date_from_response(site.web[current_url[w]].headers) = Raised

LastRecord(all) == all[Len(all)]

C8_FailedFetchAbandoned ==
    [][\A w \in Workers :
          \/ OpenFails(w) /\ pc'[w] # "fetch"
          \/ HandlingFails(w) /\ pc'[w] # "response"
          => /\ pc'[w] = "get"
             /\ urls' = urls
             /\ crawl_queue' = crawl_queue
             /\ enqueued' = enqueued
             /\ links'[w] = <<>>]_vars

\* a worker has abandoned both failing urls and goes on
C8_Witness ==
    /\ {OnSite(<<"/", "x">>), OnSite(<<"/", "e">>)} \subseteq crawled
    /\ \A w \in Workers : current_url[w] = None
    /\ \E w \in Workers : pc[w] = "get"
    /\ \A i \in 1..Len(urls) :
          urls[i].loc \notin {OnSite(<<"/", "x">>), OnSite(<<"/", "e">>)}

\* the time C9 claims for a page with these headers
ClaimedDate(headers) ==
    IF "last-modified" \in DOMAIN headers
    THEN (IF headers["last-modified"] \in HttpDates
          THEN <<headers["last-modified"]>> ELSE Now)
    ELSE IF "date" \in DOMAIN headers
    THEN (IF headers["date"] \in HttpDates THEN <<headers["date"]>> ELSE Now)
    ELSE Now

\* C9: every page fetched and read gets a record dated by its Last-Modified
\* header, else its Date header, else the current time; a missing or
\* non-conforming date never drops the page
C9_DateFallsBackToNow ==
    [][\A w \in Workers :
          /\ pc[w] = "response"
          /\ pc'[w] # "response"
          /\ site.web[current_url[w]].readable
          => urls' = Append(urls,
                 [loc |-> convert_html_special_chars(site.web[current_url[w]].url),
                  lastmod |-> ClaimedDate(site.web[current_url[w]].headers)])]_vars

\* ceil(n / c)
CeilDiv(n, c) == (n + c - 1) \div c

\* C10: up to MAX_URL_PER_FILE records go to the one file sitemap.xml and
\* there is no index; more go to ceil(n / MAX_URL_PER_FILE) numbered files of
\* at most MAX_URL_PER_FILE records each, which together hold the records in
\* order, and one index file lists them all
C10_SplitAtCap ==
    mpc = "done" =>
        IF Len(urls) <= MAX_URL_PER_FILE
        THEN /\ DOMAIN files = {<<"sitemap", ".xml">>}
             /\ files[<<"sitemap", ".xml">>] = [root |-> "urlset", items |-> urls]
        ELSE \E parts \in {[i \in 1..CeilDiv(Len(urls), MAX_URL_PER_FILE) |->
                              <<"sitemap", ToString(i), ".xml">>]} :
                /\ DOMAIN files = {parts[i] : i \in DOMAIN parts} \cup {<<"sitemap_index", ".xml">>}
                /\ \A i \in DOMAIN parts :
                      /\ files[parts[i]].root = "urlset"
                      /\ Len(files[parts[i]].items) <= MAX_URL_PER_FILE
                      /\ Len(files[parts[i]].items) >= 1
                /\ Flatten([i \in DOMAIN parts |-> files[parts[i]].items]) = urls
                /\ files[<<"sitemap_index", ".xml">>] = [root |-> "sitemapindex", items |-> parts]

\* one record more than a file holds has been written: two files and the index
C10_Witness ==
    /\ mpc = "done"
    /\ Len(urls) = MAX_URL_PER_FILE + 1
    /\ Cardinality(DOMAIN files) = 3
    /\ Len(files[<<"sitemap", "2", ".xml">>].items) = 1

\* the urls the workers have put into the queue (the start url is put by
\* the manager)
PutByWorkers == {u \in DOMAIN enqueued : u # site.base_url \/ enqueued[u] > 1}

\* u has no fragment and no "." or ".." segment in its path
Canonical(u) ==
    /\ IndexOf(u, "#") = 0
    /\ \E segments \in {Split(urlsplit(u).path, "/")} :
          \A i \in 1..Len(segments) : segments[i] \notin {<<".">>, <<".", ".">>}

\* C11: every url a worker puts into the queue is canonical, whatever the
\* form of the link it came from: no fragment, no "." or ".." path segment
C11_EnqueuedUrlsCanonical == \A u \in PutByWorkers : Canonical(u)

\* worker w puts its link into the queue in this step
Puts(w) ==
    /\ pc[w] = "put"
    /\ pc'[w] # "put"
    /\ crawl_queue' = Append(crawl_queue, link_str[w])

\* C12: a link that equals the location of a record of the sitemap is
\* discarded and never put into the queue, also when the record was made
\* under the final url of a redirect
C12_RecordedLinkDiscarded ==
    [][\A w \in Workers :
          Puts(w) => \A i \in 1..Len(urls) : urls[i].loc # link_str[w]]_vars

\* C13: no url of another host and no mailto: or tel: url is ever put into
\* the queue
C13_OnlySameHostPages ==
    \A u \in PutByWorkers :
        /\ urlsplit(u).netloc = urlsplit(site.base_url).netloc
        /\ urlsplit(u).scheme \notin {"mailto:", "tel:"}

\* the link worker w looks at next, on a page of FilterSite
NextLinkIs(w, href) ==
    /\ site = FilterSite
    /\ pc[w] = "links"
    /\ links[w] # <<>>
    /\ Head(links[w]) = href

\* C14: no link that the robots.txt of the site disallows is ever put into
\* the queue: every url of the queue but the start url is allowed
C14_RobotsDisallowedNeverEnqueued ==
    \A u \in PutByWorkers :
        \A prefix \in site.disallow : ~StartsWith(urlsplit(u).path, prefix)

\* a worker has looked at the disallowed link /p/a and goes on with the next
\* link of the page; /p/a is not in the queue
C14_Witness ==
    /\ \E w \in Workers : NextLinkIs(w, <<"/", "z", "x">>)
    /\ OnSite(<<"/", "p", "/", "a">>) \notin DOMAIN enqueued
    /\ site.disallow = {<<"/", "p">>}

\* C15: no url that holds a member of the exclusion set as a substring is
\* ever put into the queue, and the exclusion set never changes
C15_ExcludedNeverEnqueued ==
    /\ [](\A u \in PutByWorkers : \A ex \in site.excluded : ~Contains(u, ex))
    /\ [][site.excluded' = site.excluded]_vars

\* a worker has looked at the excluded link /zx and goes on with the next
\* link of the page; /zx is not in the queue
C15_Witness ==
    /\ \E w \in Workers : NextLinkIs(w, <<"#", "t">>)
    /\ OnSite(<<"/", "z", "x">>) \notin DOMAIN enqueued
    /\ site.excluded = {<<"z", "x">>}

\* scheme, host and "/" of the page: the root of its site
Root(page) == <<urlsplit(page).scheme, urlsplit(page).netloc, "/">>

\* the link is neither "/"-rooted, "#"-only nor absolute: it is resolved
\* against the url of the page
Relative(link) ==
    /\ ~StartsWith(link, <<"/">>)
    /\ ~StartsWith(link, <<"#">>)
    /\ \A p \in HttpPrefixes : ~StartsWith(link, p)

\* C16: the normal form of a link stays below the root of the site (".."
\* never pops past it), a resolved link has no "." or ".." segment left, and
\* the normal form fed back as a link is its own normal form
C16_NormalizationIdempotent ==
    [][\A w \in Workers :
          /\ pc[w] = "links" /\ pc'[w] = "check" =>
                /\ StartsWith(link_str'[w], Root(response_url[w]))
                /\ IndexOf(link_str'[w], "#") = 0
                /\ Relative(Head(links[w])) => Canonical(link_str'[w])
          /\ pc[w] = "check" /\ pc'[w] = "put" => link_str'[w] = link_str[w]]_vars

\* "../../a#t" on the page /c/d has been normalized to /a, twice
C16_Witness ==
    /\ pc[1] = "put"
    /\ response_url[1] = OnSite(<<"/", "c", "/", "d">>)
    /\ link_str[1] = OnSite(<<"/", "a">>)
    /\ links[1] = <<OnSite(<<"/", "a">>)>>

\* the entities of the four special characters
Entities ==
    (<<"&", "a", "m", "p", ";">> :> "&") @@ (<<"&", "q", "u", "o", "t", ";">> :> "\"")
    @@ (<<"&", "l", "t", ";">> :> "<") @@ (<<"&", "g", "t", ";">> :> ">")

RECURSIVE Unescape(_)
\* every entity of s replaced by its character, in one pass from the left
Unescape(s) ==
    IF s = <<>> THEN <<>>
    ELSE IF \E ent \in DOMAIN Entities : StartsWith(s, ent)
    THEN Let(CHOOSE ent \in DOMAIN Entities : StartsWith(s, ent), LAMBDA ent :
             <<Entities[ent]>> \o Let(Drop(s, Len(ent)), Unescape))
    ELSE <<Head(s)>> \o Let(Tail(s), Unescape)

\* no '"', '<' or '>' is in s, and every "&" of s starts an entity
FullyEscaped(s) ==
    \A k \in 1..Len(s) :
        /\ s[k] \notin {"\"", "<", ">"}
        /\ s[k] = "&" => \E ent \in DOMAIN Entities : StartsWith(Drop(s, k - 1), ent)

\* C17: the location of a record is the final url of the page with every
\* '&', '"', '<' and '>' replaced by its entity: none of them is left bare,
\* and unescaping the location gives the url back
C17_EscapingRoundTrip ==
    \A i \in 1..Len(urls) :
        /\ FullyEscaped(urls[i].loc)
        /\ Unescape(urls[i].loc) = site.web[site.base_url].url

\* the page '&amp;<' is recorded as '&amp;amp;&lt;'
C17_Witness ==
    /\ site.base_url = <<"&", "a", "m", "p", ";", "<">>
    /\ Len(urls) = 1
    /\ urls[1].loc = <<"&", "a", "m", "p", ";", "a", "m", "p", ";", "&", "l", "t", ";">>

\* C18: a url taken from the queue whose path ends in an invalid format is
\* not opened; it gets one record with the current time, no link is taken
\* from it and nothing is put into the queue
C18_InvalidFormatNotFetched ==
    [][\A w \in Workers :
          Skipped(w) /\ pc'[w] # "fetch" =>
              /\ pc'[w] = "get"
              /\ urls' = Append(urls,
                     [loc |-> convert_html_special_chars(prepare_url(current_url[w])),
                      lastmod |-> Now])
              /\ links'[w] = <<>>
              /\ crawl_queue' = crawl_queue
              /\ enqueued' = enqueued]_vars

\* a worker is back at the queue from /f.pdf, which it has just recorded
C18_Witness ==
    /\ \E w \in Workers : pc[w] = "get"
    /\ mpc = "poll"
    /\ OnSite(<<"/", "f", ".", "p", "d", "f">>) \in crawled
    /\ urls # <<>>
    /\ LastRecord(urls) = [loc |-> OnSite(<<"/", "f", ".", "p", "d", "f">>), lastmod |-> Now]
    /\ \A w \in Workers : current_url[w] # OnSite(<<"/", "f", ".", "p", "d", "f">>)

\* the urls of the queue
Pending == {crawl_queue[i] : i \in 1..Len(crawl_queue)}

\* the urls taken from the queue and not yet added to the crawled set
Taken == {current_url[w] : w \in {v \in Workers : pc[v] = "crawled"}}

\* C19: with one worker no url is put into the queue twice and none is
\* taken from it (and so fetched) twice: the queue and the crawled set hold
\* exactly the urls that were ever put
C19_SingleWorkerExactlyOnce ==
    /\ \A u \in DOMAIN enqueued : enqueued[u] = 1
    /\ \A i, j \in 1..Len(crawl_queue) : i # j => crawl_queue[i] # crawl_queue[j]
    /\ Pending \cap crawled = {}
    /\ Taken \cap (Pending \cup crawled) = {}
    /\ DOMAIN enqueued = Pending \cup Taken \cup crawled

\* the one worker has crawled the site whose pages link to the same page,
\* and each page is recorded once
C19_Witness ==
    /\ site = RaceSite
    /\ pc = [w \in Workers |-> "stopped"]
    /\ mpc = "done"
    /\ crawled = {Base, OnSite(<<"/", "a">>), OnSite(<<"/", "b">>)}
    /\ Len(urls) = 3

\* the statements of a worker from the fetch of its url to the put of a link
\* of its page
PastCrawledAdd == {"fetch", "response", "links", "check", "put"}

\* C20: whatever the number of workers and their interleaving, the start url
\* is put once, by the manager, and taken once: it is in the crawled set
\* before any fetch begins and so before any link is checked, and no link
\* equal to it is ever put into the queue
C20_SeedFetchedOnce ==
    /\ enqueued[site.base_url] = 1
    /\ Cardinality({w \in Workers : current_url[w] = site.base_url /\ pc[w] = "crawled"}) <= 1
    /\ (site.base_url \in Pending) # (site.base_url \in Taken \cup crawled)
    /\ \A w \in Workers : pc[w] \in PastCrawledAdd => site.base_url \in crawled

\* the crawl from the start url /s is over: the links to /s on /s and on /a
\* were looked at and /s was fetched and recorded once
C20_Witness ==
    /\ site = SeedSite
    /\ mpc = "done"
    /\ crawled = {OnSite(<<"/", "s">>), OnSite(<<"/", "a">>)}
    /\ Len(SelectSeq(urls, LAMBDA r : r.loc = OnSite(<<"/", "s">>))) = 1

====
